---- MODULE Spec2Model ----
(***************************************************************************)
(* Funko memory game API: the score store, the POST /scores handler with   *)
(* its validation, duplicate guard and score computation, and the other    *)
(* request handlers of the API, as a state machine.                        *)
(*                                                                         *)
(* A request handler is an async function: the code up to its first await  *)
(* runs in one step, each awaited store call is one later step, and the    *)
(* steps of different requests interleave.                                 *)
(***************************************************************************)
EXTENDS Integers, Sequences, FiniteSets, TLC

VARIABLES
    store,      \* the "scores" collection: records in insertion order
    users,      \* the "users" collection: accounts in insertion order
    req,        \* the POST /scores requests, one slot each
    now,        \* Date.now(), in milliseconds
    ticks,      \* how many times the clock has advanced
    nextId,     \* how many _id values the score store has assigned
    get,        \* the GET /scores, /scores/me or /stats request in flight
    auth,       \* the POST /auth/register and /auth/login requests, one slot each
    categoriesCache,    \* whether categoriesCache is filled
    difficultiesCache,  \* whether difficultiesCache is filled
    last        \* the latest response sent, with the request it answers

vars ==
    <<store, users, req, now, ticks, nextId, get, auth, categoriesCache,
      difficultiesCache, last>>

(* What the POST /scores handler leaves alone, and what the other handlers *)
(* leave alone.                                                            *)
restVars == <<get, auth, categoriesCache, difficultiesCache>>
scoreVars == <<store, req, nextId>>

----------------------------------------------------------------------------
(* Bounds of the model.                                                    *)

MaxReqs == 2
MaxTicks == 2
MaxAuths == 2

MaxInFlight == 2

Reqs == 1..MaxReqs
AuthReqs == 1..MaxAuths

(* The steps (ms) by which the clock advances around the duplicate window. *)
TickSteps == {5000, 5001}

----------------------------------------------------------------------------
(* JavaScript values of a JSON body.                                       *)
(*   numbers and numeric strings: [k, n, x]                                *)
(*     k = "undefined"             the field is absent                     *)
(*     k = "null"                  null                                    *)
(*     k = "number", x = FALSE     the integer n                           *)
(*     k = "number", x = TRUE      n + 0.5 (n >= 0)                        *)
(*     k = "string", x = FALSE     the decimal digits of n                 *)
(*     k = "string", x = TRUE      the decimal digits of n, then "abc"     *)
(*     k = "text"                  the string "abc"                        *)
(*   strings: [k, s], k = "undefined" or "string"; a player name's s is a  *)
(*   sequence of characters, a category's or difficulty's s is a string.   *)

Undefined == [k |-> "undefined", n |-> 0, x |-> FALSE]
Null == [k |-> "null", n |-> 0, x |-> FALSE]
Num(n) == [k |-> "number", n |-> n, x |-> FALSE]
Half(n) == [k |-> "number", n |-> n, x |-> TRUE]
Digits(n) == [k |-> "string", n |-> n, x |-> FALSE]
DigitsThenLetters(n) == [k |-> "string", n |-> n, x |-> TRUE]
Letters == [k |-> "text", n |-> 0, x |-> FALSE]

NoString == [k |-> "undefined", s |-> <<>>]
Name(s) == [k |-> "string", s |-> s]
NoWord == [k |-> "undefined", s |-> ""]
Word(s) == [k |-> "string", s |-> s]

(* A number: NaN, or n (+ 0.5 when x).                                     *)
NaN == [nan |-> TRUE, n |-> 0, x |-> FALSE]
Number(n, x) == [nan |-> FALSE, n |-> n, x |-> x]

(* ToNumber, as the relational operators apply it to one operand.          *)
ToNumber(v) ==
    CASE v.k = "undefined" -> NaN
      [] v.k = "null" -> Number(0, FALSE)
      [] v.k = "number" -> Number(v.n, v.x)
      [] v.k = "string" -> IF v.x THEN NaN ELSE Number(v.n, FALSE)
      [] OTHER -> NaN

(* v < c and v > c for an integer c; a comparison with NaN is false.       *)
LessThan(v, c) == LET t == ToNumber(v) IN ~t.nan /\ t.n < c

GreaterThan(v, c) ==
    LET t == ToNumber(v) IN ~t.nan /\ (IF t.x THEN t.n >= c ELSE t.n > c)

(* Number.parseInt: the integer the value's string form starts with.       *)
parseInt(v) ==
    CASE v.k = "number" -> Number(v.n, FALSE)
      [] v.k = "string" -> Number(v.n, FALSE)
      [] OTHER -> NaN

(* !v for a string field: undefined and "" are falsy.                      *)
FalsyName(v) == v.k = "undefined" \/ v.s = <<>>
FalsyWord(v) == v.k = "undefined" \/ v.s = ""

----------------------------------------------------------------------------
(* Strings and the regular expression of the duplicate query.              *)

RECURSIVE TrimStart(_)
TrimStart(s) ==
    IF s # <<>> /\ Head(s) = " " THEN TrimStart(Tail(s)) ELSE s

RECURSIVE TrimEnd(_)
TrimEnd(s) ==
    IF s # <<>> /\ s[Len(s)] = " " THEN TrimEnd(SubSeq(s, 1, Len(s) - 1)) ELSE s

trim(s) == TrimEnd(TrimStart(s))

toLowerCase(c) ==
    CASE c = "A" -> "a"
      [] c = "B" -> "b"
      [] c = "N" -> "n"
      [] OTHER -> c

(* new RegExp throws a SyntaxError on an unterminated group and on a       *)
(* quantifier with nothing to repeat.                                      *)
RegExpThrows(src) ==
    \/ \E i \in 1..Len(src) : src[i] = "("
    \/ \E i \in 1..Len(src) : src[i] = "+" /\ (i = 1 \/ src[i - 1] = "+")

AtomMatches(a, c) == a = "." \/ toLowerCase(a) = toLowerCase(c)

(* Whether ^src$ with flag i matches s; src is one the constructor took.   *)
RECURSIVE RegExpTest(_, _)
RegExpTest(src, s) ==
    IF src = <<>> THEN s = <<>>
    ELSE IF Len(src) >= 2 /\ src[2] = "+"
    THEN /\ s # <<>>
         /\ AtomMatches(src[1], s[1])
         /\ \/ RegExpTest(Tail(Tail(src)), Tail(s))
            \/ RegExpTest(src, Tail(s))
    ELSE /\ s # <<>>
         /\ AtomMatches(src[1], s[1])
         /\ RegExpTest(Tail(src), Tail(s))

----------------------------------------------------------------------------
(* Program constants.                                                      *)

gameCategories == {"heroes", "movies", "musicians", "videogames"}
gameDifficulties == {"easy", "medium", "hard"}

MinTime == 1
MaxTime == 3600
MinMoves == 1
MaxMoves == 1000
DuplicateWindow == 10000
TimeTolerance == 5
MovesTolerance == 2
ScoreBase == 1000
TimeWeight == 5
MovesWeight == 2

ErrMissing == "Missing required fields: playerName, category, difficulty, time, moves"
ErrTime == "Invalid time value"
ErrMoves == "Invalid moves value"
ErrCategory == "Invalid category. Valid categories: heroes, movies, musicians, videogames"
ErrDifficulty == "Invalid difficulty. Valid difficulties: easy, medium, hard"
ErrDuplicate == "Duplicate score detected"
ErrSubmit == "Failed to submit score to database"
ErrInternal == "Internal server error"
NoError == ""

MaxNameLength == 50

----------------------------------------------------------------------------
(* The state.                                                              *)

NoBody ==
    [playerName |-> NoString, category |-> NoWord, difficulty |-> NoWord,
     time |-> Undefined, moves |-> Undefined, score |-> Undefined]

(* A request slot.                                                         *)
(*   pc      "idle", "query" (awaiting Score.findOne), "save" (awaiting    *)
(*           newScore.save) or "done" (answered)                           *)
(*   body    req.body, user: req.user._id (0: none)                        *)
(*   since   tenSecondsAgo, at: the createdAt of the document to save      *)
(*   seen    how many records the store held when the query ran (-1: the   *)
(*           query has not run), passed: the query found no duplicate      *)
(*   status  the response's status, id: the _id it carries                 *)
IdleReq ==
    [pc |-> "idle", body |-> NoBody, user |-> 0, since |-> 0, at |-> 0,
     seen |-> -1, passed |-> FALSE, status |-> 0, id |-> 0]

Answered(q, status, id) ==
    [pc |-> "done", body |-> NoBody, user |-> 0, since |-> 0, at |-> 0,
     seen |-> q.seen, passed |-> q.passed, status |-> status, id |-> id]

(* A response, with the request it answers: its route, its slot r (0: the  *)
(* route has no slots), its caller and its body.                           *)
(* What a response to a GET carries: the list with its counts, or the      *)
(* statistics.                                                             *)
NoData ==
    [list |-> <<>>, count |-> 0, totalCount |-> 0, page |-> NaN,
     totalPages |-> NaN, totalPlayers |-> 0, bestTime |-> 0]

(* The success field of a response body: true, false, or no such field.    *)
JsonTrue == "true"
JsonFalse == "false"
NoSuccess == "undefined"

ResponseWith(route, r, user, body, status, success, error, id, data) ==
    [route |-> route, r |-> r, user |-> user, body |-> body, status |-> status,
     success |-> success, error |-> error, id |-> id, data |-> data]

Response(route, r, user, body, status, success, error, id) ==
    ResponseWith(route, r, user, body, status, success, error, id, NoData)

NoResponse == Response("", 0, 0, NoBody, 0, NoSuccess, NoError, 0)

Accounts == {users[i] : i \in 1..Len(users)}

UserIds == {u.id : u \in Accounts}

(* bcrypt.hash of a password, and bcrypt.compare.                          *)
hash(password) == [bcrypt |-> password]

compare(enteredPassword, hashed) == hashed = hash(enteredPassword)

(* An account as the credential store keeps it; lastLogin -1 is null.      *)
Account(id, username, email, password) ==
    [id |-> id, username |-> username, email |-> email,
     password |-> hash(password), joinDate |-> 0, lastLogin |-> -1,
     updatedAt |-> 0]

----------------------------------------------------------------------------
(* POST /scores.                                                           *)

(* The presence check without its test of moves.                          *)
MissingFieldsButMoves(b) ==
    \/ FalsyName(b.playerName) \/ FalsyWord(b.category)
    \/ FalsyWord(b.difficulty)
    \/ b.time.k = "undefined"

(* The five validation checks: whether the body fails each.               *)
MissingFields(b) ==
    \/ FalsyName(b.playerName) \/ FalsyWord(b.category)
    \/ FalsyWord(b.difficulty)
    \/ b.time.k = "undefined" \/ b.moves.k = "undefined"

InvalidTime(b) == LessThan(b.time, MinTime) \/ GreaterThan(b.time, MaxTime)

InvalidMoves(b) == LessThan(b.moves, MinMoves) \/ GreaterThan(b.moves, MaxMoves)

InvalidCategory(b) == b.category.s \notin gameCategories

InvalidDifficulty(b) == b.difficulty.s \notin gameDifficulties

(* The validation with the moves check ahead of the time check.           *)
ValidateMovesFirst(b) ==
    IF MissingFields(b) THEN ErrMissing
    ELSE IF InvalidMoves(b) THEN ErrMoves
    ELSE IF InvalidTime(b) THEN ErrTime
    ELSE IF InvalidCategory(b) THEN ErrCategory
    ELSE IF InvalidDifficulty(b) THEN ErrDifficulty
    ELSE NoError

(* The validation, in the handler's order: the error of the first check    *)
(* that fails, or NoError.                                                 *)
Validate(b) ==
    IF MissingFields(b) THEN ErrMissing
    ELSE IF InvalidTime(b) THEN ErrTime
    ELSE IF InvalidMoves(b) THEN ErrMoves
    ELSE IF InvalidCategory(b) THEN ErrCategory
    ELSE IF InvalidDifficulty(b) THEN ErrDifficulty
    ELSE NoError

(* The filter of Score.findOne applied to one record.                      *)
DuplicateFilter(rec, b, since) ==
    /\ RegExpTest(trim(b.playerName.s), rec.playerName)
    /\ rec.category = b.category.s
    /\ rec.difficulty = b.difficulty.s
    /\ rec.createdAt >= since
    /\ rec.time >= parseInt(b.time).n - TimeTolerance
    /\ rec.time <= parseInt(b.time).n + TimeTolerance
    /\ rec.moves >= parseInt(b.moves).n - MovesTolerance
    /\ rec.moves <= parseInt(b.moves).n + MovesTolerance

(* The query casts its bounds to numbers: NaN is a cast error.             *)
QueryThrows(b) == parseInt(b.time).nan \/ parseInt(b.moves).nan

recentDuplicate(st, b, since) ==
    \E i \in 1..Len(st) : DuplicateFilter(st[i], b, since)

Max(a, b) == IF a >= b THEN a ELSE b

Abs(a) == IF a >= 0 THEN a ELSE -a

(* The score without its floor at 0.                                       *)
calculatedScoreUnfloored(time, moves) ==
    LET t == parseInt(time)
        m == parseInt(moves)
    IN IF t.nan \/ m.nan THEN NaN
       ELSE Number(ScoreBase - (t.n * TimeWeight + m.n * MovesWeight), FALSE)

(* Math.max(1000 - (parseInt(time) * 5 + parseInt(moves) * 2), 0)          *)
calculatedScore(time, moves) ==
    LET t == parseInt(time)
        m == parseInt(moves)
    IN IF t.nan \/ m.nan THEN NaN
       ELSE Number(Max(ScoreBase - (t.n * TimeWeight + m.n * MovesWeight), 0),
                   FALSE)

(* The schema's validation of the document on save.                        *)
SchemaValid(b) ==
    /\ trim(b.playerName.s) # <<>>
    /\ Len(trim(b.playerName.s)) <= MaxNameLength
    /\ b.category.s \in gameCategories
    /\ b.difficulty.s \in gameDifficulties
    /\ ~parseInt(b.time).nan /\ parseInt(b.time).n >= MinTime
    /\ ~parseInt(b.moves).nan /\ parseInt(b.moves).n >= MinMoves
    /\ ~calculatedScore(b.time, b.moves).nan

(* The document of the handler before accounts: no userId.                *)
newScoreAnonymous(b, user, at, id) ==
    [id |-> id,
     playerName |-> trim(b.playerName.s),
     userId |-> 0,
     category |-> b.category.s,
     difficulty |-> b.difficulty.s,
     time |-> parseInt(b.time).n,
     moves |-> parseInt(b.moves).n,
     score |-> calculatedScore(b.time, b.moves).n,
     createdAt |-> at]

(* The document with the score of the request body when it carries one.   *)
newScoreFromClient(b, user, at, id) ==
    [id |-> id,
     playerName |-> trim(b.playerName.s),
     userId |-> user,
     category |-> b.category.s,
     difficulty |-> b.difficulty.s,
     time |-> parseInt(b.time).n,
     moves |-> parseInt(b.moves).n,
     score |-> IF b.score.k = "number" THEN b.score.n
               ELSE calculatedScore(b.time, b.moves).n,
     createdAt |-> at]

(* new Score({...}), as the store keeps it.                                *)
newScore(b, user, at, id) ==
    [id |-> id,
     playerName |-> trim(b.playerName.s),
     userId |-> user,
     category |-> b.category.s,
     difficulty |-> b.difficulty.s,
     time |-> parseInt(b.time).n,
     moves |-> parseInt(b.moves).n,
     score |-> calculatedScore(b.time, b.moves).n,
     createdAt |-> at]

(* A store that keeps one record per player.                               *)
upsert(st, doc) ==
    IF \E i \in 1..Len(st) : st[i].playerName = doc.playerName
    THEN [i \in 1..Len(st) |->
             IF st[i].playerName = doc.playerName THEN doc ELSE st[i]]
    ELSE Append(st, doc)

(* newScore.save(): the collection gains the document.                     *)
insert(st, doc) == Append(st, doc)

(* The request arrives and the handler runs to its first await: the        *)
(* validation, Date.now() and the regular expression of the query. The     *)
(* requests take the slots in order.                                       *)
Submit(r, b, u) ==
    /\ req[r].pc = "idle"
    /\ \A q \in Reqs : q < r => req[q].pc # "idle"
    /\ u \in UserIds
    /\ IF Validate(b) # NoError
       THEN /\ req' = [req EXCEPT ![r] = Answered(@, 400, 0)]
            /\ last' = Response("POST /scores", r, u, b, 400, JsonFalse, Validate(b), 0)
       ELSE IF RegExpThrows(trim(b.playerName.s))
       THEN /\ req' = [req EXCEPT ![r] = Answered(@, 500, 0)]
            /\ last' = Response("POST /scores", r, u, b, 500, JsonFalse, ErrSubmit, 0)
       ELSE /\ req' = [req EXCEPT ![r] =
                          [@ EXCEPT !.pc = "query", !.body = b, !.user = u,
                                    !.since = now - DuplicateWindow]]
            /\ last' = NoResponse
    /\ UNCHANGED <<store, users, now, ticks, nextId, restVars>>

(* Score.findOne resolves (ok) or rejects; without a duplicate the handler *)
(* goes on to build the document and call save.                            *)
Query(r, ok) ==
    LET q == req[r] IN
    /\ q.pc = "query"
    /\ IF ~ok \/ QueryThrows(q.body)
       THEN /\ req' = [req EXCEPT ![r] = Answered(@, 500, 0)]
            /\ last' = Response("POST /scores", r, q.user, q.body, 500, JsonFalse, ErrSubmit, 0)
       ELSE IF recentDuplicate(store, q.body, q.since)
       THEN /\ req' = [req EXCEPT ![r] =
                          Answered([@ EXCEPT !.seen = Len(store)], 409, 0)]
            /\ last' = Response("POST /scores", r, q.user, q.body, 409, JsonFalse, ErrDuplicate, 0)
       ELSE /\ req' = [req EXCEPT ![r] =
                          [@ EXCEPT !.pc = "save", !.at = now, !.since = 0,
                                    !.seen = Len(store), !.passed = TRUE]]
            /\ last' = NoResponse
    /\ UNCHANGED <<store, users, now, ticks, nextId, restVars>>

(* A save that runs the duplicate query again and rejects on a match.      *)
SaveUnlessDuplicate(r, ok) ==
    LET q == req[r] IN
    /\ q.pc = "save"
    /\ IF ~SchemaValid(q.body) \/ ~ok
       THEN /\ req' = [req EXCEPT ![r] = Answered(@, 500, 0)]
            /\ last' = Response("POST /scores", r, q.user, q.body, 500, JsonFalse, ErrSubmit, 0)
            /\ UNCHANGED <<store, nextId>>
       ELSE IF recentDuplicate(store, q.body, q.at - DuplicateWindow)
       THEN /\ req' = [req EXCEPT ![r] = Answered(@, 409, 0)]
            /\ last' = Response("POST /scores", r, q.user, q.body, 409, JsonFalse, ErrDuplicate, 0)
            /\ UNCHANGED <<store, nextId>>
       ELSE /\ store' = insert(store, newScore(q.body, q.user, q.at, nextId + 1))
            /\ nextId' = nextId + 1
            /\ req' = [req EXCEPT ![r] = Answered(@, 201, nextId + 1)]
            /\ last' = Response("POST /scores", r, q.user, q.body, 201, JsonTrue, NoError, nextId + 1)
    /\ UNCHANGED <<users, now, ticks, restVars>>

(* newScore.save() validates the document, then inserts it (ok) or fails.  *)
Save(r, ok) ==
    LET q == req[r] IN
    /\ q.pc = "save"
    /\ IF ~SchemaValid(q.body) \/ ~ok
       THEN /\ req' = [req EXCEPT ![r] = Answered(@, 500, 0)]
            /\ last' = Response("POST /scores", r, q.user, q.body, 500, JsonFalse, ErrSubmit, 0)
            /\ UNCHANGED <<store, nextId>>
       ELSE /\ store' = insert(store, newScore(q.body, q.user, q.at, nextId + 1))
            /\ nextId' = nextId + 1
            /\ req' = [req EXCEPT ![r] = Answered(@, 201, nextId + 1)]
            /\ last' = Response("POST /scores", r, q.user, q.body, 201, JsonTrue, NoError, nextId + 1)
    /\ UNCHANGED <<users, now, ticks, restVars>>

(* Time passes.                                                            *)
Tick(d) ==
    /\ ticks < MaxTicks
    /\ now' = now + d
    /\ ticks' = ticks + 1
    /\ UNCHANGED <<store, users, req, nextId, restVars, last>>

----------------------------------------------------------------------------
(* GET /scores and GET /scores/me.                                         *)

DefaultLimit == 50
DefaultPage == 1
MaxLimit == 100

NoQuery ==
    [category |-> NoWord, difficulty |-> NoWord, limit |-> Undefined,
     page |-> Undefined]

(* The GET request in flight.                                              *)
(*   pc      "idle", "find" (awaiting Score.find), "count" (awaiting       *)
(*           Score.countDocuments) or "stats" (awaiting Promise.all)       *)
(*   route   the route, user: req.user._id (0: the route takes no caller)  *)
(*   query   req.query, scores: what Score.find resolved to                *)
IdleGet ==
    [pc |-> "idle", route |-> "", user |-> 0, query |-> NoQuery,
     scores |-> <<>>]

Min(a, b) == IF a <= b THEN a ELSE b

(* const { limit = 50, page = 1 } = req.query                              *)
OrDefault(v, d) == IF v.k = "undefined" THEN Num(d) ELSE v

(* Math.min(Number.parseInt(limit), 100)                                   *)
limitNum(qy) ==
    LET l == parseInt(OrDefault(qy.limit, DefaultLimit))
    IN IF l.nan THEN NaN ELSE Number(Min(l.n, MaxLimit), FALSE)

(* (Number.parseInt(page) - 1) * limitNum                                  *)
skip(qy) ==
    LET pg == parseInt(OrDefault(qy.page, DefaultPage))
        l == limitNum(qy)
    IN IF pg.nan \/ l.nan THEN NaN ELSE Number((pg.n - 1) * l.n, FALSE)

(* A filter object without the caller.                                     *)
FilterAnyUser(rec, qy, user) ==
    /\ (~FalsyWord(qy.category) /\ qy.category.s # "all")
          => rec.category = qy.category.s
    /\ (~FalsyWord(qy.difficulty) /\ qy.difficulty.s # "all")
          => rec.difficulty = qy.difficulty.s

(* The filter object applied to one record; /scores/me adds the caller.    *)
Filter(rec, qy, user) ==
    /\ user # 0 => rec.userId = user
    /\ (~FalsyWord(qy.category) /\ qy.category.s # "all")
          => rec.category = qy.category.s
    /\ (~FalsyWord(qy.difficulty) /\ qy.difficulty.s # "all")
          => rec.difficulty = qy.difficulty.s

Matching(st, qy, user) == {i \in 1..Len(st) : Filter(st[i], qy, user)}

(* sort({ time: 1, moves: 1 }): the store orders equal keys as it likes.   *)
InOrder(a, b) == a.time < b.time \/ (a.time = b.time /\ a.moves <= b.moves)

RECURSIVE SortedLists(_, _)
SortedLists(st, I) ==
    IF I = {} THEN {<<>>}
    ELSE UNION {{<<st[i]>> \o rest : rest \in SortedLists(st, I \ {i})} :
                   i \in {m \in I : \A j \in I : InOrder(st[m], st[j])}}

(* .limit(lim).skip(sk): a limit of 0 is no limit, a negative limit is its *)
(* absolute value.                                                         *)
Page(list, sk, lim) ==
    LET to == IF lim = 0 THEN Len(list) ELSE Min(Len(list), sk + Abs(lim))
    IN IF sk >= Len(list) THEN <<>> ELSE SubSeq(list, sk + 1, to)

(* One entry of formattedScores; date is the day of score.date.            *)
formattedScore(rec) ==
    [id |-> rec.id, playerName |-> rec.playerName, category |-> rec.category,
     difficulty |-> rec.difficulty, time |-> rec.time, moves |-> rec.moves,
     date |-> rec.createdAt \div 86400000]

formattedScores(list) == [k \in 1..Len(list) |-> formattedScore(list[k])]

(* Math.ceil(totalCount / limitNum); not finite for a limit of 0.          *)
totalPages(totalCount, lim) ==
    IF lim.nan \/ lim.n = 0 THEN NaN
    ELSE IF lim.n > 0 THEN Number((totalCount + lim.n - 1) \div lim.n, FALSE)
    ELSE Number(-(totalCount \div (-lim.n)), FALSE)

ErrFetch(route) ==
    IF route = "GET /scores" THEN "Failed to fetch scores from database"
    ELSE "Failed to fetch user scores from database"

ErrStats == "Failed to fetch game statistics"

(* The request arrives; the handler runs to await Score.find.              *)
GetScores(route, u, qy) ==
    /\ get.pc = "idle"
    /\ route = "GET /scores/me" => u \in UserIds
    /\ route = "GET /scores" => u = 0
    /\ get' = [pc |-> "find", route |-> route, user |-> u, query |-> qy,
               scores |-> <<>>]
    /\ last' = NoResponse
    /\ UNCHANGED <<scoreVars, users, now, ticks, auth, categoriesCache,
                   difficultiesCache>>

(* Score.find resolves to the page of one sorted list, or rejects (a       *)
(* negative skip is rejected; a NaN limit or skip is rejected or taken as  *)
(* 0).                                                                     *)
FindScores(ok) ==
    LET lim == limitNum(get.query)
        sk == skip(get.query)
    IN
    /\ get.pc = "find"
    /\ IF ~ok \/ (~sk.nan /\ sk.n < 0)
       THEN /\ get' = IdleGet
            /\ last' = Response(get.route, 0, get.user, NoBody, 500, JsonFalse,
                                ErrFetch(get.route), 0)
       ELSE /\ \E list \in SortedLists(store, Matching(store, get.query, get.user)) :
                 get' = [get EXCEPT !.pc = "count",
                                    !.scores = Page(list, sk.n, lim.n)]
            /\ last' = NoResponse
    /\ UNCHANGED <<scoreVars, users, now, ticks, auth, categoriesCache,
                   difficultiesCache>>

(* Score.countDocuments resolves, and the handler responds, or rejects.    *)
CountScores(ok) ==
    LET totalCount == Cardinality(Matching(store, get.query, get.user)) IN
    /\ get.pc = "count"
    /\ get' = IdleGet
    /\ last' =
          IF ~ok
          THEN Response(get.route, 0, get.user, NoBody, 500, JsonFalse, ErrFetch(get.route), 0)
          ELSE ResponseWith(get.route, 0, get.user, NoBody, 200, JsonTrue, NoError, 0,
                   [NoData EXCEPT
                       !.list = formattedScores(get.scores),
                       !.count = Len(get.scores),
                       !.totalCount = totalCount,
                       !.page = parseInt(OrDefault(get.query.page, DefaultPage)),
                       !.totalPages = totalPages(totalCount, limitNum(get.query))])
    /\ UNCHANGED <<scoreVars, users, now, ticks, auth, categoriesCache,
                   difficultiesCache>>

----------------------------------------------------------------------------
(* GET /stats, GET /categories and GET /difficulties.                      *)

(* The request arrives; the handler awaits its four queries.               *)
GetStats ==
    /\ get.pc = "idle"
    /\ get' = [IdleGet EXCEPT !.pc = "stats", !.route = "GET /stats"]
    /\ last' = NoResponse
    /\ UNCHANGED <<scoreVars, users, now, ticks, auth, categoriesCache,
                   difficultiesCache>>

(* The smallest time of the store, 0 for null.                             *)
bestScore(st) ==
    IF st = <<>> THEN 0
    ELSE CHOOSE t \in {st[i].time : i \in 1..Len(st)} :
            \A i \in 1..Len(st) : t <= st[i].time

(* Promise.all resolves, and the handler responds, or rejects.             *)
ResolveStats(ok) ==
    /\ get.pc = "stats"
    /\ get' = IdleGet
    /\ last' =
          IF ~ok
          THEN Response("GET /stats", 0, 0, NoBody, 500, JsonFalse, ErrStats, 0)
          ELSE ResponseWith("GET /stats", 0, 0, NoBody, 200, JsonTrue, NoError, 0,
                   [NoData EXCEPT
                       !.totalCount = Len(store),
                       !.totalPlayers =
                           Cardinality({store[i].playerName : i \in 1..Len(store)}),
                       !.bestTime = bestScore(store)])
    /\ UNCHANGED <<scoreVars, users, now, ticks, auth, categoriesCache,
                   difficultiesCache>>

GetCategories ==
    /\ categoriesCache' = TRUE
    /\ last' = ResponseWith("GET /categories", 0, 0, NoBody, 200, JsonTrue, NoError, 0,
                    [NoData EXCEPT !.count = Cardinality(gameCategories)])
    /\ UNCHANGED <<scoreVars, users, now, ticks, get, auth, difficultiesCache>>

GetDifficulties ==
    /\ difficultiesCache' = TRUE
    /\ last' = ResponseWith("GET /difficulties", 0, 0, NoBody, 200, JsonTrue, NoError, 0,
                    [NoData EXCEPT !.count = Cardinality(gameDifficulties)])
    /\ UNCHANGED <<scoreVars, users, now, ticks, get, auth, categoriesCache>>

----------------------------------------------------------------------------
(* POST /auth/register and POST /auth/login.                               *)

MinUsernameLength == 3
MaxUsernameLength == 30
MinPasswordLength == 6

ErrFields == "Please enter all fields"
ErrExists == "User with that email or username already exists"
ErrRegister == "Server error during registration"
ErrCredentials == "Invalid credentials"
ErrLogin == "Server error during login"

NoCredentials == [username |-> NoString, email |-> NoString, password |-> NoWord]

(* An auth request slot.                                                   *)
(*   pc      "idle", "exists" (register awaiting User.findOne), "create"   *)
(*           (awaiting User.create), "find" (login awaiting User.findOne), *)
(*           "save" (awaiting user.save) or "hung" (never answered)        *)
(*   body    req.body, uid: the account found, at: the time of the write   *)
IdleAuth == [pc |-> "idle", body |-> NoCredentials, uid |-> 0, at |-> 0]

lowercase(s) == [i \in 1..Len(s) |-> toLowerCase(s[i])]

(* match: /.+@.+\..+/                                                      *)
MatchesEmail(s) ==
    \E i, j \in 1..Len(s) :
        s[i] = "@" /\ s[j] = "." /\ 1 < i /\ i + 1 < j /\ j < Len(s)

(* The schema's setters: trim for username, trim and lowercase for email.  *)
castUsername(v) == trim(v.s)
castEmail(v) == lowercase(trim(v.s))

(* A query's value: through the setters or as sent, by the library's       *)
(* version.                                                                *)
queryUsername(v, setters) == IF setters THEN castUsername(v) ELSE v.s
queryEmail(v, setters) == IF setters THEN castEmail(v) ELSE v.s

(* The schema's validation of a new account.                               *)
UserValid(b) ==
    /\ Len(castUsername(b.username)) >= MinUsernameLength
    /\ Len(castUsername(b.username)) <= MaxUsernameLength
    /\ MatchesEmail(castEmail(b.email))
    /\ Len(b.password.s) >= MinPasswordLength

(* A collection without unique indexes.                                    *)
NoUniqueIndex(b) == FALSE

(* The unique indexes on username and email.                               *)
DuplicateKey(b) ==
    \E acc \in Accounts :
        acc.username = castUsername(b.username) \/ acc.email = castEmail(b.email)

(* A hook that hashes what the account holds on every save: the stored    *)
(* hash becomes the hash of a hash string.                                 *)
preSaveAlways(doc, isModifiedPassword) ==
    [doc EXCEPT !.password = hash("$2a$10$")]

(* pre("save"): hashes the password when it was modified.                  *)
preSave(doc, isModifiedPassword) ==
    IF ~isModifiedPassword THEN doc
    ELSE [doc EXCEPT !.password = hash(doc.password)]

newUser(id, b, at) ==
    [id |-> id, username |-> castUsername(b.username),
     email |-> castEmail(b.email), password |-> b.password.s, joinDate |-> at,
     lastLogin |-> -1, updatedAt |-> at]

AuthResponse(route, a, status, success, error, uid) ==
    Response(route, a, uid, NoBody, status, success, error, uid)

(* The register request arrives; the handler runs to await User.findOne.   *)
Register(a, b) ==
    /\ auth[a].pc = "idle"
    /\ \A c \in AuthReqs : c < a => auth[c].pc # "idle"
    /\ IF FalsyName(b.username) \/ FalsyName(b.email) \/ FalsyWord(b.password)
       THEN /\ last' = AuthResponse("POST /auth/register", a, 400, JsonFalse, ErrFields, 0)
            /\ UNCHANGED auth
       ELSE /\ auth' = [auth EXCEPT ![a] = [IdleAuth EXCEPT !.pc = "exists", !.body = b]]
            /\ last' = NoResponse
    /\ UNCHANGED <<scoreVars, users, now, ticks, get, categoriesCache,
                   difficultiesCache>>

(* User.findOne resolves, or rejects outside the handler's try: then no    *)
(* response is sent.                                                       *)
RegisterExists(a, ok, setters) ==
    LET b == auth[a].body IN
    /\ auth[a].pc = "exists"
    /\ IF ~ok
       THEN /\ auth' = [auth EXCEPT ![a].pc = "hung"]
            /\ last' = NoResponse
       ELSE IF \E acc \in Accounts :
                  \/ acc.email = queryEmail(b.email, setters)
                  \/ acc.username = queryUsername(b.username, setters)
       THEN /\ auth' = [auth EXCEPT ![a] = IdleAuth]
            /\ last' = AuthResponse("POST /auth/register", a, 400, JsonFalse, ErrExists, 0)
       ELSE /\ auth' = [auth EXCEPT ![a].pc = "create", ![a].at = now]
            /\ last' = NoResponse
    /\ UNCHANGED <<scoreVars, users, now, ticks, get, categoriesCache,
                   difficultiesCache>>

(* User.create validates, hashes and inserts the account, or rejects.      *)
RegisterCreate(a, ok) ==
    LET b == auth[a].body
        id == Len(users) + 1
    IN
    /\ auth[a].pc = "create"
    /\ auth' = [auth EXCEPT ![a] = IdleAuth]
    /\ IF ~ok \/ ~UserValid(b) \/ DuplicateKey(b)
       THEN /\ last' = AuthResponse("POST /auth/register", a, 500, JsonFalse, ErrRegister, 0)
            /\ UNCHANGED users
       ELSE /\ users' = Append(users, preSave(newUser(id, b, auth[a].at), TRUE))
            /\ last' = AuthResponse("POST /auth/register", a, 201, JsonTrue, NoError, id)
    /\ UNCHANGED <<scoreVars, now, ticks, get, categoriesCache, difficultiesCache>>

(* The login request arrives; the handler runs to await User.findOne.      *)
Login(a, b) ==
    /\ auth[a].pc = "idle"
    /\ \A c \in AuthReqs : c < a => auth[c].pc # "idle"
    /\ IF FalsyName(b.email) \/ FalsyWord(b.password)
       THEN /\ last' = AuthResponse("POST /auth/login", a, 400, JsonFalse, ErrFields, 0)
            /\ UNCHANGED auth
       ELSE /\ auth' = [auth EXCEPT ![a] = [IdleAuth EXCEPT !.pc = "find", !.body = b]]
            /\ last' = NoResponse
    /\ UNCHANGED <<scoreVars, users, now, ticks, get, categoriesCache,
                   difficultiesCache>>

(* User.findOne resolves and the password is compared, or it rejects.      *)
LoginFind(a, ok, setters) ==
    LET b == auth[a].body
        found == {i \in 1..Len(users) : users[i].email = queryEmail(b.email, setters)}
    IN
    /\ auth[a].pc = "find"
    /\ IF ~ok
       THEN /\ auth' = [auth EXCEPT ![a] = IdleAuth]
            /\ last' = AuthResponse("POST /auth/login", a, 500, JsonFalse, ErrLogin, 0)
       ELSE IF \/ found = {}
               \/ \A i \in found : ~compare(b.password.s, users[i].password)
       THEN /\ auth' = [auth EXCEPT ![a] = IdleAuth]
            /\ last' = AuthResponse("POST /auth/login", a, 401, JsonFalse, ErrCredentials, 0)
       ELSE /\ \E i \in found :
                 /\ \A j \in found : i <= j
                 /\ auth' = [auth EXCEPT ![a].pc = "save", ![a].uid = users[i].id,
                                         ![a].at = now]
            /\ last' = NoResponse
    /\ UNCHANGED <<scoreVars, users, now, ticks, get, categoriesCache,
                   difficultiesCache>>

(* user.save() writes lastLogin and the updatedAt timestamp, or rejects.    *)
LoginSave(a, ok) ==
    /\ auth[a].pc = "save"
    /\ auth' = [auth EXCEPT ![a] = IdleAuth]
    /\ IF ~ok
       THEN /\ last' = AuthResponse("POST /auth/login", a, 500, JsonFalse, ErrLogin, 0)
            /\ UNCHANGED users
       ELSE /\ users' = [i \in 1..Len(users) |->
                            IF users[i].id = auth[a].uid
                            THEN preSave([users[i] EXCEPT !.lastLogin = auth[a].at,
                                                       !.updatedAt = auth[a].at],
                                         FALSE)
                            ELSE users[i]]
            /\ last' = AuthResponse("POST /auth/login", a, 200, JsonTrue, NoError, auth[a].uid)
    /\ UNCHANGED <<scoreVars, now, ticks, get, categoriesCache, difficultiesCache>>

(* GET /auth/me: the profile of the authenticated caller.                  *)
GetProfile(u) ==
    /\ u \in UserIds
    /\ last' = AuthResponse("GET /auth/me", 0, 200, JsonTrue, NoError, u)
    /\ UNCHANGED <<scoreVars, users, now, ticks, restVars>>

----------------------------------------------------------------------------
(* The server: the health check, the 404 handler and the error middleware. *)

ErrNotFound == "Route not found"

(* app.get("/"): the status document.                                      *)
Health ==
    /\ last' = Response("GET /", 0, 0, NoBody, 200, NoSuccess, NoError, 0)
    /\ UNCHANGED <<scoreVars, users, now, ticks, restVars>>

(* app.use("*"): a request that no route matches.                          *)
NotFound ==
    /\ last' = Response("*", 0, 0, NoBody, 404, NoSuccess, ErrNotFound, 0)
    /\ UNCHANGED <<scoreVars, users, now, ticks, restVars>>

(* express.json() fails on a body that is no JSON and passes its error to  *)
(* the error middleware.                                                   *)
MalformedBody(route) ==
    /\ last' = Response(route, 0, 0, NoBody, 500, NoSuccess, ErrInternal, 0)
    /\ UNCHANGED <<scoreVars, users, now, ticks, restVars>>

----------------------------------------------------------------------------
(* The requests the clients send.                                          *)

Ann == <<"A", "n", "n">>

(* The example of the specification: Ann, heroes, easy, 50 s, 20 moves.    *)
BaseBody ==
    [playerName |-> Name(Ann), category |-> Word("heroes"),
     difficulty |-> Word("easy"), time |-> Num(50), moves |-> Num(20),
     score |-> Undefined]

(* Bodies that differ from the example in the fields validation reads.     *)
ValidationBodies ==
    [playerName : {NoString, Name(Ann)},
     category : {NoWord, Word("villains"), Word("heroes")},
     difficulty : {NoWord, Word("extreme"), Word("easy")},
     time : {Undefined, Num(0), Num(3601), Num(50)},
     moves : {Undefined, Num(1001), Num(20)},
     score : {Undefined}]
    \cup {[BaseBody EXCEPT !.playerName = Name(<<>>)],
          [BaseBody EXCEPT !.category = Word("")],
          [BaseBody EXCEPT !.difficulty = Word("")],
          [BaseBody EXCEPT !.time = Null],
          [BaseBody EXCEPT !.moves = Null],
          [BaseBody EXCEPT !.moves = Num(0)]}

(* Bodies at and around the ends of the time and moves ranges.             *)
RangeBodies ==
    {[BaseBody EXCEPT !.time = t, !.moves = m] :
        t \in {Num(0), Num(1), Num(3600), Num(3601), Half(0), Half(3600),
               DigitsThenLetters(5000), Letters},
        m \in {Num(0), Num(1), Num(1000), Num(1001), DigitsThenLetters(2000)}}

(* Bodies that differ from the example in one field the duplicate query    *)
(* reads.                                                                  *)
DuplicateBodies ==
    {BaseBody}
    \cup {[BaseBody EXCEPT !.playerName = Name(n)] :
            n \in {<<"a", "n", "n">>, <<" ", "A", "n", "n", " ">>,
                   <<"A", ".", "n">>, <<"A", "n", "+">>, <<"B", "o", "b">>}}
    \cup {[BaseBody EXCEPT !.category = Word("movies")],
          [BaseBody EXCEPT !.difficulty = Word("hard")]}
    \cup {[BaseBody EXCEPT !.time = Num(t)] : t \in {55, 56}}
    \cup {[BaseBody EXCEPT !.moves = Num(m)] : m \in {22, 23}}

(* Bodies that take every path of the handler; the example carries a      *)
(* score of the client's.                                                  *)
ScoreBodies ==
    {[BaseBody EXCEPT !.score = Num(9999)],
     [BaseBody EXCEPT !.playerName = NoString],
     [BaseBody EXCEPT !.playerName = Name(<<" ">>)],
     [BaseBody EXCEPT !.playerName = Name(<<"(">>)],
     [BaseBody EXCEPT !.time = Half(51)]}

(* Two duplicates of each other and a body that is no duplicate of them.   *)
RaceBodies ==
    {BaseBody,
     [BaseBody EXCEPT !.playerName = Name(<<"a", "n", "n">>), !.time = Num(55)],
     [BaseBody EXCEPT !.playerName = Name(<<"B", "o", "b">>)]}

(* The example with every valid time.                                      *)
CalcBodies ==
    {[BaseBody EXCEPT !.time = Num(t), !.score = Num(9999)] :
        t \in MinTime..MaxTime}

(* A valid submission.                                                     *)
ApiBodies == {BaseBody}

(* The second page of one record of a category.                            *)
ApiQueries ==
    {[category |-> Word("heroes"), difficulty |-> Word("all"),
      limit |-> Digits(1), page |-> Digits(2)]}

Credentials(username, email, password) ==
    [username |-> username, email |-> email, password |-> password]

(* A new account, and a body without password.                             *)
RegisterBodies ==
    {Credentials(Name(<<"n", "a", "n">>), Name(<<"N", "@", "x", ".", "y">>),
                 Word("secret3")),
     Credentials(Name(<<"n", "a", "n">>), Name(<<"n", "@", "x", ".", "y">>),
                 NoWord)}

(* Registrations that collide: a new name and email, the same name padded *)
(* with another email, another name with the same email in lower case, the *)
(* name and the email (in upper case) of a seeded account, and a password  *)
(* that is too short.                                                      *)
RacingRegisterBodies ==
    {Credentials(Name(<<"n", "a", "n">>), Name(<<"N", "@", "x", ".", "y">>),
                 Word("secret3")),
     Credentials(Name(<<" ", "n", "a", "n">>), Name(<<"b", "@", "n", ".", "y">>),
                 Word("secret4")),
     Credentials(Name(<<"N", "a", "n">>), Name(<<"n", "@", "x", ".", "y">>),
                 Word("secret5")),
     Credentials(Name(<<"a", "n", "n">>), Name(<<"n", "@", "n", ".", "y">>),
                 Word("secret6")),
     Credentials(Name(<<"b", "a", "n">>), Name(<<"A", "@", "x", ".", "y">>),
                 Word("secret7")),
     Credentials(Name(<<"b", "a", "b">>), Name(<<"b", "@", "b", ".", "y">>),
                 Word("short"))}

(* The first seeded account with its password and with another.           *)
LoginBodies ==
    {Credentials(NoString, Name(<<"a", "@", "x", ".", "y">>), Word("secret1")),
     Credentials(NoString, Name(<<"a", "@", "x", ".", "y">>), Word("secret9"))}

(* Logins of the first seeded account: with its password, with its email  *)
(* in upper case, with a wrong password, with an unknown email, and with   *)
(* no password.                                                            *)
LoginAttempts ==
    {Credentials(NoString, Name(<<"a", "@", "x", ".", "y">>), Word("secret1")),
     Credentials(NoString, Name(<<"A", "@", "x", ".", "y">>), Word("secret1")),
     Credentials(NoString, Name(<<"a", "@", "x", ".", "y">>), Word("secret9")),
     Credentials(NoString, Name(<<"n", "@", "x", ".", "y">>), Word("secret1")),
     Credentials(NoString, Name(<<"a", "@", "x", ".", "y">>), NoWord)}

(* Queries with and without filters, with limits at and around the clamp   *)
(* and 0, and with the first two pages.                                    *)
ListQueries ==
    [category : {NoWord, Word("all"), Word("heroes")},
     difficulty : {NoWord, Word("easy")},
     limit : {Undefined, Digits(1), Digits(2), Digits(0), Digits(-1),
              Digits(150)},
     page : {Undefined, Digits(1), Digits(2)}]

(* No query, and the first record of a category and a difficulty.          *)
MeQueries ==
    {NoQuery,
     [category |-> Word("heroes"), difficulty |-> Word("easy"),
      limit |-> Digits(1), page |-> Digits(1)]}

(* A submission that is no duplicate of a seeded record.                   *)
ListBodies == {[BaseBody EXCEPT !.time = Num(30)]}

(* The records of earlier submissions: two of account 1, one of account 2  *)
(* with the time and moves of another, and one from before records had a   *)
(* userId (0).                                                             *)
SeedScores ==
    <<newScore(BaseBody, 1, 0, 1),
      newScore([BaseBody EXCEPT !.playerName = Name(<<"B", "o", "b">>)], 2, 0, 2),
      newScore([BaseBody EXCEPT !.difficulty = Word("hard"), !.time = Num(40),
                                !.moves = Num(30)], 1, 0, 3),
      newScore([BaseBody EXCEPT !.category = Word("movies"), !.moves = Num(10)],
               0, 0, 4)>>

(* The accounts registered before the first request.                      *)
SeedUsers ==
    <<Account(1, <<"a", "n", "n">>, <<"a", "@", "x", ".", "y">>, "secret1"),
      Account(2, <<"b", "o", "b">>, <<"b", "@", "x", ".", "y">>, "secret2")>>

----------------------------------------------------------------------------
(* The specifications.                                                     *)

Init ==
    /\ store = <<>>
    /\ users = SeedUsers
    /\ req = [r \in Reqs |-> IdleReq]
    /\ now = 0
    /\ ticks = 0
    /\ nextId = 0
    /\ get = IdleGet
    /\ auth = [a \in AuthReqs |-> IdleAuth]
    /\ categoriesCache = FALSE
    /\ difficultiesCache = FALSE
    /\ last = NoResponse

PostScores(bodies, callers) ==
    \/ \E r \in Reqs, b \in bodies, u \in callers : Submit(r, b, u)
    \/ \E r \in Reqs, ok \in BOOLEAN : Query(r, ok)
    \/ \E r \in Reqs, ok \in BOOLEAN : Save(r, ok)

(* The requests the server is working on.                                  *)
InFlight ==
    Cardinality({r \in Reqs : req[r].pc \in {"query", "save"}})
    + Cardinality({a \in AuthReqs : auth[a].pc # "idle"})
    + (IF get.pc = "idle" THEN 0 ELSE 1)

(* A request whose handler awaits the store arrives, while fewer than      *)
(* MaxInFlight are at work.                                                *)
Arrive ==
    \/ /\ InFlight < MaxInFlight
       /\ \E r \in Reqs, b \in ApiBodies : Submit(r, b, 1)
    \/ /\ InFlight < MaxInFlight
       /\ \E qy \in ApiQueries : GetScores("GET /scores", 0, qy)
    \/ /\ InFlight < MaxInFlight
       /\ \E qy \in ApiQueries : GetScores("GET /scores/me", 1, qy)
    \/ /\ InFlight < MaxInFlight
       /\ GetStats
    \/ /\ InFlight < MaxInFlight
       /\ \E b \in RegisterBodies : Register(1, b)
    \/ /\ InFlight < MaxInFlight
       /\ \E b \in LoginBodies : Login(1, b)

(* The store answers a handler, which runs on.                             *)
Resume ==
    \/ \E r \in Reqs, ok \in BOOLEAN : Query(r, ok)
    \/ \E r \in Reqs, ok \in BOOLEAN : Save(r, ok)
    \/ \E ok \in BOOLEAN : FindScores(ok)
    \/ \E ok \in BOOLEAN : CountScores(ok)
    \/ \E ok \in BOOLEAN : ResolveStats(ok)
    \/ \E ok \in BOOLEAN, setters \in BOOLEAN : RegisterExists(1, ok, setters)
    \/ \E ok \in BOOLEAN : RegisterCreate(1, ok)
    \/ \E ok \in BOOLEAN, setters \in BOOLEAN : LoginFind(1, ok, setters)
    \/ \E ok \in BOOLEAN : LoginSave(1, ok)

(* The whole API, with at most MaxInFlight requests at work at once. The   *)
(* clock stands still here; SpecDuplicate and SpecRace advance it.         *)
Next ==
    \/ Arrive
    \/ Resume
    \/ GetCategories
    \/ GetDifficulties

Spec == Init /\ [][Next]_vars

(* The whole API and the server's own answers.                             *)
NextServer ==
    \/ Next
    \/ \E u \in UserIds : GetProfile(u)
    \/ Health
    \/ NotFound
    \/ \E route \in {"POST /scores", "POST /auth/register", "POST /auth/login"} :
          MalformedBody(route)

SpecServer == Init /\ [][NextServer]_vars

(* Registrations in every interleaving.                                    *)
NextRegister ==
    \/ \E a \in AuthReqs, b \in RacingRegisterBodies : Register(a, b)
    \/ \E a \in AuthReqs, ok \in BOOLEAN, setters \in BOOLEAN :
          RegisterExists(a, ok, setters)
    \/ \E a \in AuthReqs, ok \in BOOLEAN : RegisterCreate(a, ok)

SpecRegister == Init /\ [][NextRegister]_vars

(* Logins in every interleaving, as time passes.                           *)
NextLogin ==
    \/ \E a \in AuthReqs, b \in LoginAttempts : Login(a, b)
    \/ \E a \in AuthReqs, ok \in BOOLEAN, setters \in BOOLEAN :
          LoginFind(a, ok, setters)
    \/ \E a \in AuthReqs, ok \in BOOLEAN : LoginSave(a, ok)
    \/ \E d \in TickSteps : Tick(d)

SpecLogin == Init /\ [][NextLogin]_vars

(* The store answers every call made to it, by resolving or by rejecting.  *)
StoreAnswers ==
    /\ \A r \in Reqs : WF_vars(\E ok \in BOOLEAN : Query(r, ok))
    /\ \A r \in Reqs : WF_vars(\E ok \in BOOLEAN : Save(r, ok))
    /\ WF_vars(\E ok \in BOOLEAN : FindScores(ok))
    /\ WF_vars(\E ok \in BOOLEAN : CountScores(ok))
    /\ WF_vars(\E ok \in BOOLEAN : ResolveStats(ok))
    /\ WF_vars(\E ok \in BOOLEAN, setters \in BOOLEAN :
                  RegisterExists(1, ok, setters))
    /\ WF_vars(\E ok \in BOOLEAN : RegisterCreate(1, ok))
    /\ WF_vars(\E ok \in BOOLEAN, setters \in BOOLEAN : LoginFind(1, ok, setters))
    /\ WF_vars(\E ok \in BOOLEAN : LoginSave(1, ok))

SpecLive == Spec /\ StoreAnswers

NextScores == PostScores(ScoreBodies, {1, 2})

SpecScores == Init /\ [][NextScores]_vars

NextValidation == PostScores(ValidationBodies, {1})

SpecValidation == Init /\ [][NextValidation]_vars

NextRange == PostScores(RangeBodies, {1})

SpecRange == Init /\ [][NextRange]_vars

NextDuplicate ==
    \/ PostScores(DuplicateBodies, {1})
    \/ \E d \in TickSteps : Tick(d)

SpecDuplicate == Init /\ [][NextDuplicate]_vars

(* One submission of any of CalcBodies, with no store failure.             *)
NextCalc ==
    \/ \E b \in CalcBodies : Submit(1, b, 1)
    \/ Query(1, TRUE)
    \/ Save(1, TRUE)

SpecCalc == Init /\ [][NextCalc]_vars

NextRace ==
    \/ PostScores(RaceBodies, {1})
    \/ Tick(DuplicateWindow + 1)

SpecRace == Init /\ [][NextRace]_vars

(* The server with the records of earlier submissions in its store.        *)
InitList ==
    /\ store = SeedScores
    /\ users = SeedUsers
    /\ req = [r \in Reqs |-> IdleReq]
    /\ now = 0
    /\ ticks = 0
    /\ nextId = Len(SeedScores)
    /\ get = IdleGet
    /\ auth = [a \in AuthReqs |-> IdleAuth]
    /\ categoriesCache = FALSE
    /\ difficultiesCache = FALSE
    /\ last = NoResponse

GetLists(queries, callers) ==
    \/ \E qy \in queries : GetScores("GET /scores", 0, qy)
    \/ \E qy \in queries, u \in callers : GetScores("GET /scores/me", u, qy)
    \/ \E ok \in BOOLEAN : FindScores(ok)
    \/ \E ok \in BOOLEAN : CountScores(ok)

(* The leaderboard and the personal scores, read while account 1 submits.  *)
NextList ==
    \/ GetLists(ListQueries, {1})
    \/ PostScores(ListBodies, {1})

SpecList == InitList /\ [][NextList]_vars

(* The personal scores of both accounts, read while both submit.           *)
NextMe ==
    \/ \E qy \in MeQueries, u \in UserIds : GetScores("GET /scores/me", u, qy)
    \/ \E ok \in BOOLEAN : FindScores(ok)
    \/ \E ok \in BOOLEAN : CountScores(ok)
    \/ PostScores(ListBodies, UserIds)

SpecMe == InitList /\ [][NextMe]_vars

----------------------------------------------------------------------------
(* The claims.                                                             *)

Records == {store[i] : i \in 1..Len(store)}

Lower(s) == [i \in 1..Len(s) |-> toLowerCase(s[i])]

(* C1: every record of the score store has                                 *)
(* score = max(1000 - (time*5 + moves*2), 0) for its own time and moves,   *)
(* whatever score the request body carried.                                *)
C1_ScoreIsDerived ==
    \A rec \in Records :
        rec.score = Max(1000 - (rec.time * 5 + rec.moves * 2), 0)

(* C1's case: the example was submitted with a score of 9999 in its body   *)
(* and its record has the score 710.                                       *)
C1_Witness ==
    /\ last.status = 201
    /\ last.body.score = Num(9999)
    /\ \E rec \in Records :
          rec.id = last.id /\ rec.time = 50 /\ rec.moves = 20 /\ rec.score = 710

(* Two records are duplicates as the specification words it: names equal   *)
(* ignoring case, same category and difficulty, time within 5 and moves    *)
(* within 2.                                                               *)
SameGame(a, b) ==
    /\ Lower(a.playerName) = Lower(b.playerName)
    /\ a.category = b.category
    /\ a.difficulty = b.difficulty
    /\ Abs(a.time - b.time) <= 5
    /\ Abs(a.moves - b.moves) <= 2

(* C2: of two submissions of the same game, processed one after the other  *)
(* within 10 seconds, only the first is persisted: the store never holds   *)
(* the records of both.                                                    *)
C2_OneRecordPerGame ==
    \A p, q \in Reqs :
        (/\ p # q
         /\ req[p].status = 201 /\ req[q].status = 201
         /\ req[q].seen >= req[p].id
         /\ now <= 10000)
        => \A a, b \in Records :
              (a.id = req[p].id /\ b.id = req[q].id) => ~SameGame(a, b)

(* The body that submits a record's values again.                          *)
BodyOf(rec) ==
    [playerName |-> Name(rec.playerName), category |-> Word(rec.category),
     difficulty |-> Word(rec.difficulty), time |-> Num(rec.time),
     moves |-> Num(rec.moves), score |-> Undefined]

(* Each of two records is in the other's duplicate query.                  *)
MutualDuplicates(a, b) ==
    /\ DuplicateFilter(a, BodyOf(b), b.createdAt - DuplicateWindow)
    /\ DuplicateFilter(b, BodyOf(a), a.createdAt - DuplicateWindow)

(* C3: the duplicate guard is check-then-act: a request whose query found  *)
(* no duplicate inserts its record and is answered 201 whatever the store  *)
(* holds by then, unless the save fails.                                   *)
C3_InsertAfterCheck ==
    \A q \in Reqs :
        (req[q].pc = "done" /\ req[q].passed /\ req[q].status # 500)
        => /\ req[q].status = 201
           /\ \E rec \in Records : rec.id = req[q].id

(* C3's case: two requests ran their queries before either inserted, both  *)
(* were answered 201 and their records are duplicates of each other.       *)
C3_Witness ==
    \E p, q \in Reqs :
        /\ p # q
        /\ req[p].status = 201 /\ req[q].status = 201
        /\ req[p].seen < req[p].id /\ req[p].seen < req[q].id
        /\ req[q].seen < req[p].id /\ req[q].seen < req[q].id
        /\ \E a, b \in Records :
              a.id = req[p].id /\ b.id = req[q].id /\ MutualDuplicates(a, b)

(* A record is a duplicate of a submission as the specification words it:  *)
(* the trimmed name equal ignoring case as a whole, same category and      *)
(* difficulty, created no earlier than 10 seconds before, time within 5    *)
(* and moves within 2.                                                     *)
IsDuplicateOf(rec, b, since) ==
    /\ Lower(rec.playerName) = Lower(trim(b.playerName.s))
    /\ rec.category = b.category.s
    /\ rec.difficulty = b.difficulty.s
    /\ rec.createdAt >= since
    /\ Abs(rec.time - parseInt(b.time).n) <= 5
    /\ Abs(rec.moves - parseInt(b.moves).n) <= 2

(* C4: a duplicate query that completes rejects the submission with 409    *)
(* if and only if the store holds a duplicate of it.                       *)
C4_RejectedIffDuplicate ==
    [][\A r \in Reqs :
          (req[r].pc = "query" /\ req'[r].pc # "query" /\ req'[r].status # 500)
          => ((req'[r].status = 409)
              <=> \E rec \in Records :
                     IsDuplicateOf(rec, req[r].body, req[r].since))]_vars

(* The checks a body fails, in the order of the specification, and their   *)
(* errors.                                                                 *)
Failed(b) ==
    <<MissingFields(b), InvalidTime(b), InvalidMoves(b), InvalidCategory(b),
      InvalidDifficulty(b)>>

Errors == <<ErrMissing, ErrTime, ErrMoves, ErrCategory, ErrDifficulty>>

(* C5: a body that fails a check is answered 400 with the error of the     *)
(* first check it fails, in the order missing fields, time, moves,         *)
(* category, difficulty, and its duplicate query never runs; no other      *)
(* body is answered 400.                                                   *)
C5_FirstFailureWins ==
    last.route = "POST /scores" =>
        LET failed == Failed(last.body) IN
        /\ (last.status = 400) <=> (\E i \in 1..5 : failed[i])
        /\ \A i \in 1..5 :
              (failed[i] /\ \A j \in 1..(i - 1) : ~failed[j])
              => /\ last.error = Errors[i]
                 /\ req[last.r].seen = -1
                 /\ ~req[last.r].passed

(* C5's case: a body that fails the time, the moves and the category       *)
(* checks is answered with the time error.                                 *)
C5_Witness ==
    /\ last.route = "POST /scores"
    /\ ~MissingFields(last.body)
    /\ InvalidTime(last.body) /\ InvalidMoves(last.body)
    /\ InvalidCategory(last.body)
    /\ last.status = 400 /\ last.error = ErrTime

AnyMissing(b) ==
    \/ b.playerName.k = "undefined" \/ b.category.k = "undefined"
    \/ b.difficulty.k = "undefined"
    \/ b.time.k = "undefined" \/ b.moves.k = "undefined"

(* C6: the step that answers a submission with any of the five fields      *)
(* missing answers 400 and leaves the score store as it was.               *)
C6_MissingFieldRejected ==
    [][(last'.route = "POST /scores" /\ AnyMissing(last'.body))
       => (last'.status = 400 /\ store' = store)]_vars

(* C6's case: a body with only moves missing, and one with only the name   *)
(* missing, answered 400.                                                  *)
C6_Witness ==
    /\ last.route = "POST /scores"
    /\ last.body.moves = Undefined
    /\ last.body.playerName # NoString /\ last.body.time # Undefined
    /\ last.body.category # NoWord /\ last.body.difficulty # NoWord
    /\ last.status = 400 /\ last.error = ErrMissing

(* C7: no record of the score store has a time outside 1..3600 or moves    *)
(* outside 1..1000.                                                        *)
C7_RecordsInRange ==
    \A rec \in Records :
        rec.time \in 1..3600 /\ rec.moves \in 1..1000

(* C8: the score of a record is that of its time and moves alone and is   *)
(* never negative, and for the record's time t and every valid number of   *)
(* moves m the score of (t, m) is not negative, not below that of          *)
(* (t + 1, m) and not below that of (t, m + 1).                            *)
C8_ScoreMonotone ==
    \A rec \in Records :
        /\ rec.score = calculatedScore(Num(rec.time), Num(rec.moves)).n
        /\ rec.score >= 0
        /\ \A m \in 1..1000 :
              LET here == calculatedScore(Num(rec.time), Num(m)).n IN
              /\ here >= 0
              /\ rec.time < 3600
                    => here >= calculatedScore(Num(rec.time + 1), Num(m)).n
              /\ m < 1000
                    => here >= calculatedScore(Num(rec.time), Num(m + 1)).n

(* C8's case: a record whose time drives 1000 - (time*5 + moves*2) below   *)
(* zero has the score 0.                                                   *)
C8_Witness ==
    \E rec \in Records :
        rec.time = 3600 /\ 1000 - (rec.time * 5 + rec.moves * 2) < 0
        /\ rec.score = 0

(* The step answers request r.                                             *)
Answers(r) == req[r].pc # "done" /\ req'[r].pc = "done" /\ last'.r = r

(* The step appends one record to the score store.                         *)
AppendsOne == Len(store') = Len(store) + 1 /\ SubSeq(store', 1, Len(store)) = store

(* C9 as stated: a 201 adds exactly one record with the trimmed name, the  *)
(* submitted category, difficulty, time and moves and the caller as        *)
(* userId, and carries its id; a 400, 409 or 500 adds none.                *)
C9_PersistsSubmittedValues ==
    [][\A r \in Reqs : Answers(r) =>
          IF last'.status = 201
          THEN /\ AppendsOne
               /\ LET rec == store'[Len(store')] IN
                  /\ rec.playerName = trim(last'.body.playerName.s)
                  /\ rec.category = last'.body.category.s
                  /\ rec.difficulty = last'.body.difficulty.s
                  /\ ToNumber(last'.body.time) = Number(rec.time, FALSE)
                  /\ ToNumber(last'.body.moves) = Number(rec.moves, FALSE)
                  /\ rec.userId = last'.user
                  /\ rec.id = last'.id
          ELSE store' = store]_vars

(* C9 as amended: the record's time and moves are Number.parseInt of the   *)
(* submitted values.                                                       *)
C9_PersistsParsedValues ==
    [][\A r \in Reqs : Answers(r) =>
          IF last'.status = 201
          THEN /\ AppendsOne
               /\ LET rec == store'[Len(store')] IN
                  /\ rec.playerName = trim(last'.body.playerName.s)
                  /\ rec.category = last'.body.category.s
                  /\ rec.difficulty = last'.body.difficulty.s
                  /\ parseInt(last'.body.time) = Number(rec.time, FALSE)
                  /\ parseInt(last'.body.moves) = Number(rec.moves, FALSE)
                  /\ rec.userId = last'.user
                  /\ rec.id = last'.id
          ELSE /\ last'.status \in {400, 409, 500}
               /\ store' = store]_vars

(* C9's case: account 2 submitted a time of 51.5 and was answered 201 with *)
(* the id of its record, whose time is 51; before it a submission was      *)
(* answered with an error and added nothing.                               *)
C9_Witness ==
    /\ last.status = 201 /\ last.user = 2
    /\ last.body.time = Half(51)
    /\ \E rec \in Records :
          rec.id = last.id /\ rec.userId = 2 /\ rec.time = 51
    /\ Len(store) = 1
    /\ \E r \in Reqs : req[r].status \in {400, 409, 500}

(* C10: after any sequence of API operations, every record that was ever  *)
(* created is still in the store with all its fields unchanged: a step     *)
(* that changes the store is a POST /scores answered 201, and it adds one  *)
(* record and nothing else.                                                *)
C10_RecordsImmutable ==
    [][/\ \A i \in 1..Len(store) :
             \E j \in 1..Len(store') : store'[j] = store[i]
       /\ store' # store
            => /\ Len(store') = Len(store) + 1
               /\ last'.route = "POST /scores"
               /\ last'.status = 201]_vars

(* C10's case: two records were created, and with them in the store the    *)
(* categories and difficulties were served, an account registered, an      *)
(* account logged in, and the leaderboard just answered with a record.     *)
C10_Witness ==
    /\ Len(store) = 2
    /\ categoriesCache /\ difficultiesCache
    /\ Len(users) = Len(SeedUsers) + 1
    /\ \E i \in 1..Len(users) : users[i].lastLogin # -1
    /\ last.route = "GET /scores" /\ last.status = 200
    /\ last.data.count = 1 /\ last.data.totalCount = 2

(* A filter value that names a category or a difficulty.                   *)
Concrete(w) == w.k = "string" /\ w.s # "all"

(* The records of st that match every concrete filter of qy.               *)
MatchingFilters(st, qy) ==
    {i \in 1..Len(st) :
        /\ Concrete(qy.category) => st[i].category = qy.category.s
        /\ Concrete(qy.difficulty) => st[i].difficulty = qy.difficulty.s}

(* Positions a..b of a list.                                               *)
Positions(list, a, b) ==
    IF a > Len(list) \/ b < a THEN <<>> ELSE SubSeq(list, a, Min(b, Len(list)))

(* C11: GET /scores with filters c and d, limit L and page p answers with  *)
(* a list in which every record matches every concrete filter, ordered by  *)
(* ascending time and then ascending moves, that is exactly positions      *)
(* (p-1)*L+1 .. p*L of the sorted list of all matching records, and with   *)
(* a totalCount that is the number of all matching records in the store.   *)
C11_ListIsPageOfSorted ==
    [][(get.pc = "count" /\ get.route = "GET /scores" /\ last'.status = 200)
       => LET qy == get.query
              L == limitNum(qy).n
              p == parseInt(OrDefault(qy.page, DefaultPage)).n
              M == MatchingFilters(store', qy)
              list == last'.data.list
          IN /\ \A k \in 1..Len(list) :
                   /\ Concrete(qy.category) => list[k].category = qy.category.s
                   /\ Concrete(qy.difficulty)
                        => list[k].difficulty = qy.difficulty.s
             /\ \A k, l \in 1..Len(list) : k < l => InOrder(list[k], list[l])
             /\ \E S \in SortedLists(store', M) :
                   list = formattedScores(Positions(S, (p - 1) * L + 1, p * L))
             /\ last'.data.totalCount = Cardinality(M)]_vars

(* C12: the limit of GET /scores and GET /scores/me is clamped to 100 and  *)
(* defaults to 50: for every limit and page the answer holds at most 100   *)
(* records, at most 50 when limit is absent, and its totalPages is the     *)
(* finite non-negative integer ceil(totalCount / effective limit).         *)
C12_LimitClamped ==
    [][(get.pc = "count" /\ last'.status = 200)
       => LET qy == get.query
              L == limitNum(qy).n
              list == last'.data.list
              totalCount == last'.data.totalCount
          IN /\ Len(list) <= MaxLimit
             /\ qy.limit = Undefined => Len(list) <= DefaultLimit
             /\ \E pages \in 0..totalCount :
                   /\ last'.data.totalPages = Number(pages, FALSE)
                   /\ pages * L >= totalCount
                   /\ (pages - 1) * L < totalCount]_vars

(* C13: GET /scores/me called by account A answers only with records that  *)
(* POST /scores requests authenticated as A created, and its totalCount    *)
(* counts only those: a record gets the userId of the account whose        *)
(* submission created it, and no record of another account and no record   *)
(* without a userId is in the answer to A.                                 *)
C13_OnlyOwnRecords ==
    [][/\ (get.pc = "count" /\ get.route = "GET /scores/me"
           /\ last'.status = 200)
          => /\ get.user \in UserIds
             /\ \A k \in 1..Len(last'.data.list) :
                   \E i \in 1..Len(store') :
                       /\ store'[i].id = last'.data.list[k].id
                       /\ store'[i].userId = get.user
             /\ last'.data.totalCount =
                   Cardinality({i \in MatchingFilters(store', get.query) :
                                   store'[i].userId = get.user})
       /\ store' # store
          => \E r \in Reqs :
                /\ req[r].pc = "save" /\ req'[r].pc = "done"
                /\ req[r].user \in UserIds
                /\ store'[Len(store')].userId = req[r].user]_vars

(* C13's case: account 2 was answered its two records, one of them created *)
(* by its submission after the start, while the store also holds records   *)
(* of account 1, one of them submitted after the start, and a record       *)
(* without a userId.                                                       *)
C13_Witness ==
    /\ last.route = "GET /scores/me" /\ last.status = 200 /\ last.user = 2
    /\ last.data.totalCount = 2 /\ last.data.count = 2
    /\ \E k \in 1..Len(last.data.list) : last.data.list[k].id > Len(SeedScores)
    /\ \E rec \in Records : rec.userId = 1 /\ rec.id > Len(SeedScores)
    /\ \E rec \in Records : rec.userId = 0

(* C14: every failure of a store call made inside a request handler is     *)
(* caught by the handler and answered: every request that is at work       *)
(* eventually has its response, a 500 when its store call failed.          *)
C14_EveryRequestAnswered ==
    /\ \A r \in Reqs :
          (req[r].pc \in {"query", "save"}) ~> (req[r].pc = "done")
    /\ (get.pc # "idle") ~> (get.pc = "idle")
    /\ \A a \in AuthReqs : (auth[a].pc # "idle") ~> (auth[a].pc = "idle")

(* C15: every response the server sends, for every route and outcome,      *)
(* carries a boolean success field, true exactly for the 2xx outcomes and  *)
(* false for every error outcome.                                          *)
C15_SuccessField ==
    last # NoResponse
    => /\ last.success \in {JsonTrue, JsonFalse}
       /\ last.success = JsonTrue <=> last.status \in 200..299

(* The username or the email of a registration, as the store would keep    *)
(* them, is that of an account.                                            *)
Taken(b) ==
    \E acc \in Accounts :
        \/ acc.username = trim(b.username.s)
        \/ acc.email = Lower(trim(b.email.s))

(* C16: after any interleaving of POST /auth/register requests no two      *)
(* accounts share a username and no two share an email as stored; a        *)
(* registration whose username or email is taken creates no account and    *)
(* its answer is an error.                                                 *)
C16_UniqueAccounts ==
    /\ [](\A i, j \in 1..Len(users) :
            i # j => /\ users[i].username # users[j].username
                     /\ users[i].email # users[j].email
                     /\ users[i].email = Lower(users[i].email))
    /\ [][\A a \in AuthReqs :
            (auth[a].pc \in {"exists", "create"} /\ auth'[a] # auth[a]
             /\ Taken(auth[a].body))
            => /\ users' = users
               /\ auth'[a].pc = "idle"
                    => /\ last'.route = "POST /auth/register"
                       /\ last'.status \in {400, 500}
                       /\ last'.success = JsonFalse]_vars

(* C16's case: a registration passed the lookup, and before its account    *)
(* was created another registration created an account with its username   *)
(* or email.                                                               *)
C16_Witness ==
    /\ Len(users) > Len(SeedUsers)
    /\ \E a \in AuthReqs : auth[a].pc = "create" /\ Taken(auth[a].body)

(* A login answered in this step with the given status.                    *)
LoginAnswered(status) ==
    last'.route = "POST /auth/login" /\ last'.status = status

(* The seeded accounts still hold the hashes of their passwords, and a     *)
(* login with the email and the password of an account is not refused.     *)
StillAuthenticates ==
    /\ \A i \in 1..Len(SeedUsers) :
          /\ users'[i].password = SeedUsers[i].password
          /\ users'[i].username = SeedUsers[i].username
          /\ users'[i].email = SeedUsers[i].email
    /\ \A a \in AuthReqs :
          (/\ auth[a].pc = "find"
           /\ \E acc \in Accounts :
                 /\ acc.email = auth[a].body.email.s
                 /\ compare(auth[a].body.password.s, acc.password))
          => ~(LoginAnswered(401) /\ last'.r = a)

(* C17 as stated: a successful POST /auth/login changes only lastLogin on  *)
(* the account, so the same password authenticates on every later login;   *)
(* a failed login is answered 401 and changes nothing on any account.      *)
C17_OnlyLastLoginChanges ==
    [][/\ LoginAnswered(200)
          => /\ Len(users') = Len(users)
             /\ \A i \in 1..Len(users) :
                   users'[i] = [users[i] EXCEPT !.lastLogin = users'[i].lastLogin]
             /\ \A i \in 1..Len(users) :
                   users[i].id # last'.id => users'[i] = users[i]
       /\ LoginAnswered(401) => users' = users
       /\ StillAuthenticates]_vars

(* C17: a successful POST /auth/login changes lastLogin and the updatedAt  *)
(* timestamp of the account and nothing else: username, email, joinDate    *)
(* and the stored password hash are unchanged, so the same password        *)
(* authenticates on every later login; a failed login is answered 401 and  *)
(* changes nothing on any account.                                         *)
C17_LoginKeepsCredentials ==
    [][/\ LoginAnswered(200)
          => /\ Len(users') = Len(users)
             /\ \A i \in 1..Len(users) :
                   users'[i] = [users[i] EXCEPT
                                   !.lastLogin = users'[i].lastLogin,
                                   !.updatedAt = users'[i].updatedAt]
             /\ \A i \in 1..Len(users) :
                   users[i].id # last'.id => users'[i] = users[i]
       /\ LoginAnswered(401) => users' = users
       /\ StillAuthenticates]_vars

(* C17's case: account 1 logged in and its lastLogin was saved, and later   *)
(* a login with the same password was authenticated again.                 *)
C17_Witness ==
    /\ users[1].lastLogin # -1
    /\ users[1].password = SeedUsers[1].password
    /\ \E a \in AuthReqs :
          /\ auth[a].pc = "save" /\ auth[a].uid = 1
          /\ auth[a].at > users[1].lastLogin

====
